---- MODULE Spec2Model ----
(***************************************************************************)
(* The Elo rating library of src/src/lib.rs: the Elo capability            *)
(* (get_rating / change_rating), expected_rating, and EloRanking with      *)
(* new, set_k_factor, get_k_factor, calculate_rating, win, tie and loss.   *)
(*                                                                         *)
(* Ratings are Rust f32 values.  An f32 is modelled bit-exactly as a       *)
(* record [k, s, m, e]: k is "fin", "inf" or "nan"; for a finite value     *)
(* the number is (-1)^s * m * 2^e with 0 <= m < 2^24 and e >= -149, in     *)
(* canonical form (m >= 2^23, or e = -149 for zero and subnormals).        *)
(* Every arithmetic step of the source is one IEEE-754 binary32            *)
(* operation, rounded to nearest, ties to even.  powf is the exception:    *)
(* its precision is the build's, so a call may return either f32 next to   *)
(* the exact power, and two calls with one argument need not return the    *)
(* same one: the compiler evaluates some calls itself and leaves others    *)
(* to libm.                                                                *)
(***************************************************************************)
EXTENDS Integers, Naturals, Sequences, FiniteSets, TLC

(***************************************************************************)
(* f32: representation                                                     *)
(***************************************************************************)
\* Bits of an f32 significand (23 stored bits and the hidden bit).
MantBits == 24
\* Exponent of the least significant bit of the smallest subnormal, 2^-149.
MinExp == -149
\* Exponent of the least significant bit of the largest finite f32,
\* (2^24 - 1) * 2^104.
MaxExp == 104

Fin(s, m, e) == [k |-> "fin", s |-> s, m |-> m, e |-> e]
Inf(s) == [k |-> "inf", s |-> s, m |-> 0, e |-> 0]
NaN == [k |-> "nan", s |-> 0, m |-> 0, e |-> 0]
Zero(s) == Fin(s, 0, MinExp)

IsFinite(a) == a.k = "fin"
IsZero(a) == a.k = "fin" /\ a.m = 0

Max(a, b) == IF a >= b THEN a ELSE b

RECURSIVE BitLen(_)
\* Number of bits of the natural number n.
BitLen(n) ==
  IF n = 0 THEN 0
  ELSE IF n >= 65536 THEN 16 + BitLen(n \div 65536)
  ELSE IF n >= 256 THEN 8 + BitLen(n \div 256)
  ELSE IF n >= 16 THEN 4 + BitLen(n \div 16)
  ELSE 1 + BitLen(n \div 2)

\* n shifted right by d bits; a 1 is or-ed into the last bit when a nonzero
\* bit was shifted out (the sticky bit), so that rounding stays exact.
ShiftRightJam(n, d) ==
  IF d = 0 THEN n
  ELSE IF d >= BitLen(n) THEN (IF n = 0 THEN 0 ELSE 1)
  ELSE LET q == n \div (2 ^ d)
       IN IF n % (2 ^ d) = 0 \/ q % 2 = 1 THEN q ELSE q + 1

\* (-1)^s * M * 2^E rounded to an f32: to the nearest f32, ties to even
\* ("nearest"), or to the neighbouring f32 of smaller ("down") or of larger
\* ("up") magnitude.  Overflow gives an infinity, underflow a subnormal or
\* zero.  The bits of M below the f32's last place are the bit worth half a
\* unit (half) and the bits under it (rest); a shift past every bit of M
\* keeps nothing.  An odd M may stand for a value with further nonzero bits
\* below it when it has at least 26 bits.
RoundF32To(mode, s, M, E) ==
  IF M = 0 THEN Zero(s)
  ELSE LET sh == Max(BitLen(M) - MantBits, MinExp - E)
       IN IF sh <= 0
          THEN (IF E + sh > MaxExp THEN Inf(s) ELSE Fin(s, M * (2 ^ (0 - sh)), E + sh))
          ELSE LET top == IF sh <= BitLen(M) THEN M \div (2 ^ (sh - 1)) ELSE 0
                   rest == IF sh <= BitLen(M) THEN M % (2 ^ (sh - 1)) ELSE M
                   q == top \div 2
                   half == top % 2
                   up == IF mode = "nearest" THEN half = 1 /\ (rest # 0 \/ q % 2 = 1)
                         ELSE IF mode = "up" THEN half = 1 \/ rest # 0
                         ELSE FALSE
                   m1 == IF up THEN q + 1 ELSE q
                   m2 == IF m1 = 2 ^ MantBits THEN 2 ^ (MantBits - 1) ELSE m1
                   e2 == IF m1 = 2 ^ MantBits THEN E + sh + 1 ELSE E + sh
               IN IF m2 >= 2 ^ (MantBits - 1) /\ e2 > MaxExp THEN Inf(s)
                  ELSE Fin(s, m2, e2)

\* The rounding of every f32 operation and cast: to nearest, ties to even.
RoundF32(s, M, E) == RoundF32To("nearest", s, M, E)

\* A finite nonzero f32 with its significand shifted up to 24 bits (the
\* exponent may then lie below MinExp): <<m, e>>.
Normalized(a) ==
  LET d == MantBits - BitLen(a.m) IN <<a.m * (2 ^ d), a.e - d>>

\* `n as f32` for an unsigned integer n.
F32FromNat(n) == RoundF32(0, n, 0)

F32Neg(a) == IF a.k = "nan" THEN a ELSE [a EXCEPT !.s = 1 - a.s]

\* a < b: canonical finite forms compare by (e, m); a NaN is unordered.
F32Lt(a, b) ==
  LET key(x) == IF x.k = "inf" THEN <<MaxExp + 1, 0>> ELSE <<x.e, x.m>>
      mag(x, y) == key(x)[1] < key(y)[1] \/ (key(x)[1] = key(y)[1] /\ key(x)[2] < key(y)[2])
  IN /\ a.k # "nan" /\ b.k # "nan"
     /\ ~(IsZero(a) /\ IsZero(b))
     /\ IF a.s = 0 /\ b.s = 0 THEN mag(a, b)
        ELSE IF a.s = 1 /\ b.s = 1 THEN mag(b, a)
        ELSE a.s = 1
F32Le(a, b) == a.k # "nan" /\ b.k # "nan" /\ ~F32Lt(b, a)
\* The == of f32: +0.0 and -0.0 are equal, a NaN equals nothing.
F32Eq(a, b) ==
  /\ a.k # "nan" /\ b.k # "nan"
  /\ (a = b \/ (IsZero(a) /\ IsZero(b)))

(***************************************************************************)
(* f32: addition, multiplication, division                                 *)
(***************************************************************************)
\* a + b
F32Add(a, b) ==
  IF a.k = "nan" \/ b.k = "nan" THEN NaN
  ELSE IF a.k = "inf" THEN (IF b.k = "inf" /\ b.s # a.s THEN NaN ELSE a)
  ELSE IF b.k = "inf" THEN b
  ELSE IF a.m = 0 /\ b.m = 0 THEN Zero(IF a.s = 1 /\ b.s = 1 THEN 1 ELSE 0)
  ELSE IF a.m = 0 THEN b
  ELSE IF b.m = 0 THEN a
  ELSE LET hi == IF a.e >= b.e THEN a ELSE b
           lo == IF a.e >= b.e THEN b ELSE a
           H == hi.m * 8
           L == ShiftRightJam(lo.m * 8, hi.e - lo.e)
           S == IF hi.s = lo.s THEN H + L ELSE H - L
       IN IF S = 0 THEN Zero(0)
          ELSE IF S > 0 THEN RoundF32(hi.s, S, hi.e - 3)
          ELSE RoundF32(lo.s, 0 - S, hi.e - 3)

\* a - b
F32Sub(a, b) == F32Add(a, F32Neg(b))

\* a * b
F32Mul(a, b) ==
  LET s == IF a.s = b.s THEN 0 ELSE 1 IN
  IF a.k = "nan" \/ b.k = "nan" THEN NaN
  ELSE IF a.k = "inf" \/ b.k = "inf"
       THEN (IF IsZero(a) \/ IsZero(b) THEN NaN ELSE Inf(s))
  ELSE IF a.m = 0 \/ b.m = 0 THEN Zero(s)
  ELSE LET na == Normalized(a)
           nb == Normalized(b)
           a1 == na[1] \div 4096
           a0 == na[1] % 4096
           b1 == nb[1] \div 4096
           b0 == nb[1] % 4096
           mid == a1 * b0 + a0 * b1
           low == a0 * b0 + (mid % 4096) * 4096
           high == a1 * b1 + (mid \div 4096) + (low \div 16777216)
           rest == low % 16777216
           \* the product is high * 2^24 + rest, with high >= 2^22
       IN RoundF32(s, high * 64 + ShiftRightJam(rest, 18), na[2] + nb[2] + 18)

RECURSIVE DivBits(_, _, _, _)
\* n further quotient bits of r / d by long division: <<quotient, remainder>>.
DivBits(q, r, d, n) ==
  IF n = 0 THEN <<q, r>>
  ELSE IF 2 * r >= d THEN DivBits(2 * q + 1, 2 * r - d, d, n - 1)
       ELSE DivBits(2 * q, 2 * r, d, n - 1)

\* a / b
F32Div(a, b) ==
  LET s == IF a.s = b.s THEN 0 ELSE 1 IN
  IF a.k = "nan" \/ b.k = "nan" THEN NaN
  ELSE IF a.k = "inf" THEN (IF b.k = "inf" THEN NaN ELSE Inf(s))
  ELSE IF b.k = "inf" THEN Zero(s)
  ELSE IF b.m = 0 THEN (IF a.m = 0 THEN NaN ELSE Inf(s))
  ELSE IF a.m = 0 THEN Zero(s)
  ELSE LET na == Normalized(a)
           nb == Normalized(b)
           qr == DivBits(na[1] \div nb[1], na[1] % nb[1], nb[1], 26)
           Q == IF qr[2] # 0 /\ qr[1] % 2 = 0 THEN qr[1] + 1 ELSE qr[1]
       IN RoundF32(s, Q, na[2] - nb[2] - 26)

(***************************************************************************)
(* f32: powf with base 10                                                  *)
(*                                                                         *)
(* Rust leaves the precision of powf unspecified; the libm a build links   *)
(* returns 10^x with an error below one unit in the last place.  Pow10(x)  *)
(* is therefore the set of the values a build may return: 10^x itself when *)
(* it is an f32, and otherwise the two f32 values that enclose it.  10^x   *)
(* is computed as the product of the factors 10^(+-2^i) over the set bits  *)
(* of x, multiplied in 56-bit fixed point.  A fixed-point number is        *)
(* <<E, c>>: the value 2^E * c with c in [1, 2) held as five base-2^14     *)
(* digits, least significant first, 56 bits after the binary point.        *)
(***************************************************************************)
\* The exponent 2^i of the smallest and largest tabulated factor.
MinBit == -50
MaxBit == 5

\* 10^(2^i) for i = MinBit .. MaxBit.
Pow10Up ==
  <<<<0, <<147, 0, 0, 0, 1>>>>,
    <<0, <<295, 0, 0, 0, 1>>>>,
    <<0, <<589, 0, 0, 0, 1>>>>,
    <<0, <<1179, 0, 0, 0, 1>>>>,
    <<0, <<2358, 0, 0, 0, 1>>>>,
    <<0, <<4716, 0, 0, 0, 1>>>>,
    <<0, <<9431, 0, 0, 0, 1>>>>,
    <<0, <<2479, 1, 0, 0, 1>>>>,
    <<0, <<4958, 2, 0, 0, 1>>>>,
    <<0, <<9915, 4, 0, 0, 1>>>>,
    <<0, <<3446, 9, 0, 0, 1>>>>,
    <<0, <<6892, 18, 0, 0, 1>>>>,
    <<0, <<13785, 36, 0, 0, 1>>>>,
    <<0, <<11186, 73, 0, 0, 1>>>>,
    <<0, <<5987, 147, 0, 0, 1>>>>,
    <<0, <<11975, 294, 0, 0, 1>>>>,
    <<0, <<7566, 589, 0, 0, 1>>>>,
    <<0, <<15132, 1178, 0, 0, 1>>>>,
    <<0, <<13879, 2357, 0, 0, 1>>>>,
    <<0, <<11375, 4715, 0, 0, 1>>>>,
    <<0, <<6366, 9431, 0, 0, 1>>>>,
    <<0, <<12732, 2478, 1, 0, 1>>>>,
    <<0, <<9082, 4957, 2, 0, 1>>>>,
    <<0, <<1785, 9915, 4, 0, 1>>>>,
    <<0, <<3592, 3446, 9, 0, 1>>>>,
    <<0, <<7269, 6892, 18, 0, 1>>>>,
    <<0, <<14877, 13784, 36, 0, 1>>>>,
    <<0, <<14728, 11185, 73, 0, 1>>>>,
    <<0, <<2117, 5988, 147, 0, 1>>>>,
    <<0, <<9566, 11977, 294, 0, 1>>>>,
    <<0, <<7695, 7576, 589, 0, 1>>>>,
    <<0, <<2409, 15174, 1178, 0, 1>>>>,
    <<0, <<2044, 14049, 2357, 0, 1>>>>,
    <<0, <<9405, 12053, 4715, 0, 1>>>>,
    <<0, <<7500, 9080, 9431, 0, 1>>>>,
    <<0, <<4096, 7206, 2479, 1, 1>>>>,
    <<0, <<9842, 3362, 4960, 2, 1>>>>,
    <<0, <<11619, 11683, 9925, 4, 1>>>>,
    <<0, <<4809, 10482, 3488, 9, 1>>>>,
    <<0, <<15370, 2582, 7062, 18, 1>>>>,
    <<0, <<10213, 303, 14464, 36, 1>>>>,
    <<0, <<10056, 6209, 13904, 73, 1>>>>,
    <<0, <<9766, 6258, 494, 148, 1>>>>,
    <<0, <<2955, 11413, 6517, 297, 1>>>>,
    <<0, <<15404, 13922, 3176, 600, 1>>>>,
    <<0, <<10103, 6825, 6138, 1222, 1>>>>,
    <<0, <<3675, 10497, 15532, 2535, 1>>>>,
    <<0, <<5188, 11936, 6801, 5464, 1>>>>,
    <<0, <<12515, 5393, 5404, 12751, 1>>>>,
    <<1, <<13609, 13974, 6202, 9521, 1>>>>,
    <<3, <<0, 0, 0, 4096, 1>>>>,
    <<6, <<0, 0, 0, 9216, 1>>>>,
    <<13, <<0, 0, 0, 3616, 1>>>>,
    <<26, <<0, 0, 1024, 8030, 1>>>>,
    <<53, <<0, 14368, 14647, 1805, 1>>>>,
    <<106, <<8555, 347, 13749, 3810, 1>>>>>>
\* 10^(-2^i) for i = MinBit .. MaxBit.
Pow10Down ==
  <<<<-1, <<16089, 16383, 16383, 16383, 1>>>>,
    <<-1, <<15795, 16383, 16383, 16383, 1>>>>,
    <<-1, <<15205, 16383, 16383, 16383, 1>>>>,
    <<-1, <<14026, 16383, 16383, 16383, 1>>>>,
    <<-1, <<11668, 16383, 16383, 16383, 1>>>>,
    <<-1, <<6953, 16383, 16383, 16383, 1>>>>,
    <<-1, <<13905, 16382, 16383, 16383, 1>>>>,
    <<-1, <<11426, 16381, 16383, 16383, 1>>>>,
    <<-1, <<6469, 16379, 16383, 16383, 1>>>>,
    <<-1, <<12938, 16374, 16383, 16383, 1>>>>,
    <<-1, <<9492, 16365, 16383, 16383, 1>>>>,
    <<-1, <<2599, 16347, 16383, 16383, 1>>>>,
    <<-1, <<5198, 16310, 16383, 16383, 1>>>>,
    <<-1, <<10397, 16236, 16383, 16383, 1>>>>,
    <<-1, <<4409, 16089, 16383, 16383, 1>>>>,
    <<-1, <<8818, 15794, 16383, 16383, 1>>>>,
    <<-1, <<1252, 15205, 16383, 16383, 1>>>>,
    <<-1, <<2505, 14026, 16383, 16383, 1>>>>,
    <<-1, <<5009, 11668, 16383, 16383, 1>>>>,
    <<-1, <<10018, 6952, 16383, 16383, 1>>>>,
    <<-1, <<3653, 13905, 16382, 16383, 1>>>>,
    <<-1, <<7306, 11426, 16381, 16383, 1>>>>,
    <<-1, <<14614, 6468, 16379, 16383, 1>>>>,
    <<-1, <<12856, 12937, 16374, 16383, 1>>>>,
    <<-1, <<9369, 9491, 16365, 16383, 1>>>>,
    <<-1, <<2525, 2599, 16347, 16383, 1>>>>,
    <<-1, <<5728, 5198, 16310, 16383, 1>>>>,
    <<-1, <<14170, 10396, 16236, 16383, 1>>>>,
    <<-1, <<6431, 4410, 16089, 16383, 1>>>>,
    <<-1, <<7144, 8823, 15794, 16383, 1>>>>,
    <<-1, <<7796, 1273, 15205, 16383, 1>>>>,
    <<-1, <<6008, 2589, 14026, 16383, 1>>>>,
    <<-1, <<6446, 5348, 11668, 16383, 1>>>>,
    <<-1, <<6944, 11375, 6952, 16383, 1>>>>,
    <<-1, <<6091, 9081, 13905, 16382, 1>>>>,
    <<-1, <<10639, 12636, 11427, 16381, 1>>>>,
    <<-1, <<6490, 3167, 6474, 16379, 1>>>>,
    <<-1, <<15980, 16202, 12958, 16374, 1>>>>,
    <<-1, <<700, 6245, 9576, 16365, 1>>>>,
    <<-1, <<8539, 5369, 2938, 16347, 1>>>>,
    <<-1, <<6522, 8780, 6554, 16310, 1>>>>,
    <<-1, <<3817, 8972, 15817, 16236, 1>>>>,
    <<-1, <<12415, 11110, 9676, 16090, 1>>>>,
    <<-1, <<12261, 14567, 13245, 15799, 1>>>>,
    <<-1, <<12538, 10700, 523, 15226, 1>>>>,
    <<-1, <<9545, 4843, 16132, 14108, 1>>>>,
    <<-1, <<8897, 684, 15056, 11991, 1>>>>,
    <<-1, <<6553, 1111, 8740, 8188, 1>>>>,
    <<-1, <<481, 1806, 13116, 2042, 1>>>>,
    <<-2, <<4334, 4626, 4962, 4340, 1>>>>,
    <<-4, <<6554, 9830, 6553, 9830, 1>>>>,
    <<-7, <<1966, 11141, 8519, 4587, 1>>>>,
    <<-14, <<13002, 1808, 8939, 10459, 1>>>>,
    <<-27, <<926, 3107, 3810, 5606, 1>>>>,
    <<-54, <<7107, 13858, 12951, 13130, 1>>>>,
    <<-107, <<13097, 10793, 9173, 10200, 1>>>>>>

\* Product of two fixed-point numbers, truncated to 56 fractional bits.
FixMul(x, y) ==
  LET a == x[2]
      b == y[2]
      c0 == a[1] * b[1]
      c1 == a[1] * b[2] + a[2] * b[1] + (c0 \div 16384)
      c2 == a[1] * b[3] + a[2] * b[2] + a[3] * b[1] + (c1 \div 16384)
      c3 == a[1] * b[4] + a[2] * b[3] + a[3] * b[2] + a[4] * b[1] + (c2 \div 16384)
      c4 == a[1] * b[5] + a[2] * b[4] + a[3] * b[3] + a[4] * b[2] + a[5] * b[1]
            + (c3 \div 16384)
      c5 == a[2] * b[5] + a[3] * b[4] + a[4] * b[3] + a[5] * b[2] + (c4 \div 16384)
      c6 == a[3] * b[5] + a[4] * b[4] + a[5] * b[3] + (c5 \div 16384)
      c7 == a[4] * b[5] + a[5] * b[4] + (c6 \div 16384)
      c8 == a[5] * b[5] + (c7 \div 16384)
      r1 == c4 % 16384
      r2 == c5 % 16384
      r3 == c6 % 16384
      r4 == c7 % 16384
  IN IF c8 < 2 THEN <<x[1] + y[1], <<r1, r2, r3, r4, c8>>>>
     ELSE <<x[1] + y[1] + 1,
            <<(r1 \div 2) + (r2 % 2) * 8192, (r2 \div 2) + (r3 % 2) * 8192,
              (r3 \div 2) + (r4 % 2) * 8192, (r4 \div 2) + (c8 % 2) * 8192,
              c8 \div 2>>>>

RECURSIVE PowBits(_, _, _, _)
\* acc times the tabulated factor of every set bit of m, whose lowest bit
\* stands for 2^p.
PowBits(acc, m, p, tbl) ==
  IF m = 0 THEN acc
  ELSE PowBits(IF m % 2 = 1 /\ p >= MinBit THEN FixMul(acc, tbl[p - MinBit + 1]) ELSE acc,
               m \div 2, p + 1, tbl)

\* 10f32.powf(x): the values a build may return.
Pow10(x) ==
  IF x.k = "nan" THEN {NaN}
  ELSE IF x.k = "inf" THEN (IF x.s = 0 THEN {Inf(0)} ELSE {Zero(0)})
  ELSE IF x.m = 0 THEN {Fin(0, 2 ^ (MantBits - 1), 1 - MantBits)}
  ELSE IF BitLen(x.m) + x.e <= -27
       THEN (IF x.s = 0
             THEN {Fin(0, 2 ^ (MantBits - 1), 1 - MantBits),
                   Fin(0, 2 ^ (MantBits - 1) + 1, 1 - MantBits)}
             ELSE {Fin(0, 2 ^ MantBits - 1, 0 - MantBits),
                   Fin(0, 2 ^ (MantBits - 1), 1 - MantBits)})
  ELSE IF BitLen(x.m) + x.e > MaxBit + 1
       THEN (IF x.s = 0 THEN {Inf(0)} ELSE {Zero(0), Fin(0, 1, MinExp)})
  ELSE LET r == PowBits(<<0, <<0, 0, 0, 0, 1>>>>, x.m, x.e,
                        IF x.s = 0 THEN Pow10Up ELSE Pow10Down)
           c == r[2]
           top == c[5] * 268435456 + c[4] * 16384 + c[3]
           T == IF (c[1] # 0 \/ c[2] # 0) /\ top % 2 = 0 THEN top + 1 ELSE top
       IN {RoundF32To(mode, 0, T, r[1] - 28) : mode \in {"down", "up"}}

(***************************************************************************)
(* The library: the Elo capability, expected_rating and EloRanking         *)
(***************************************************************************)
\* The state: the caller's engine and participants, and what it has called.
VARIABLES
  elo_ranking,  \* the EloRanking value: [k_factor]
  rating,       \* the rating field of every participant
  log,          \* one record per call made so far, EloRanking::new first
  budget        \* calls the caller still makes

vars == <<elo_ranking, rating, log, budget>>

\* The literals 1.0f32 (also the score 1.0), 0.5 and 400f32 of the source.
F32One == Fin(0, 2 ^ (MantBits - 1), 1 - MantBits)
F32Half == Fin(0, 2 ^ (MantBits - 1), 0 - MantBits)
F32FourHundred == F32FromNat(400)

\* Elo::get_rating of the participant p; r holds every participant's rating
\* field (RatingObject.rating).
get_rating(r, p) == r[p]

\* change_rating overwriting the rating: self.rating = delta.
change_rating_assigned(r, p, delta) == [r EXCEPT ![p] = delta]

\* Elo::change_rating(delta) on the participant p: self.rating += delta.
change_rating(r, p, delta) == [r EXCEPT ![p] = F32Add(@, delta)]

\* The argument expected_rating hands to powf:
\* (player_two.get_rating() - player_one.get_rating()) / 400f32.
PowfArgument(r, player_one, player_two) ==
  F32Div(F32Sub(get_rating(r, player_two), get_rating(r, player_one)), F32FourHundred)

\* What 10f32.powf can be at one call that hands it x: any value powf may
\* return for x, whatever it returned to the calls before.
Powf(x) == {[z \in {x} |-> y] : y \in Pow10(x)}

\* expected_rating returning the power itself, the 1 / (1 + ...) left out.
expected_rating_bare_power(pw, r, player_one, player_two) ==
  pw[PowfArgument(r, player_one, player_two)]

\* expected_rating with the power taken the other way up: 10^-x for 10^x.
expected_rating_reciprocal(pw, r, player_one, player_two) ==
  F32Div(F32One,
         F32Add(F32One, F32Div(F32One, pw[PowfArgument(r, player_one, player_two)])))

\* expected_rating without the 1 + in the denominator.
expected_rating_unbounded(pw, r, player_one, player_two) ==
  F32Div(F32One, pw[PowfArgument(r, player_one, player_two)])

\* expected_rating(player_one, player_two), pw being powf at this call.
expected_rating(pw, r, player_one, player_two) ==
  F32Div(F32One, F32Add(F32One, pw[PowfArgument(r, player_one, player_two)]))

\* EloRanking::new(k)
new(k) == [k_factor |-> k]

\* set_k_factor refusing a K-factor of 0.
set_k_factor_validated(self, k) == IF k = 0 THEN self ELSE [self EXCEPT !.k_factor = k]

\* EloRanking::set_k_factor(&mut self, k): the engine afterwards.
set_k_factor(self, k) == [self EXCEPT !.k_factor = k]

\* EloRanking::get_k_factor(&self): the value returned.
get_k_factor(self) == self.k_factor

\* calculate_rating working out player_two's delta from player_two's own
\* score and expected score, 1 - score and 1 - expected.
calculate_rating_each_side(pw, self, r, player_one, player_two, score) ==
  LET k == F32FromNat(self.k_factor)
      e == expected_rating(pw, r, player_one, player_two)
  IN [expected |-> <<e>>,
      changes |-> <<[who |-> player_one, delta |-> F32Mul(k, F32Sub(score, e))],
                    [who |-> player_two,
                     delta |-> F32Mul(k, F32Sub(F32Sub(F32One, score), F32Sub(F32One, e)))]>>]

\* calculate_rating with expected - score for score - expected.
calculate_rating_sign_flipped(pw, self, r, player_one, player_two, score) ==
  LET e == expected_rating(pw, r, player_one, player_two)
      change == F32Mul(F32FromNat(self.k_factor), F32Sub(e, score))
  IN [expected |-> <<e>>,
      changes |-> <<[who |-> player_one, delta |-> change],
                    [who |-> player_two, delta |-> F32Neg(change)]>>]

\* EloRanking::calculate_rating(&self, player_one, player_two, score): the
\* expected score it computes and the change_rating calls it makes, in
\* order; pw is powf at this call.
calculate_rating(pw, self, r, player_one, player_two, score) ==
  LET e == expected_rating(pw, r, player_one, player_two)
      change == F32Mul(F32FromNat(self.k_factor), F32Sub(score, e))
  IN [expected |-> <<e>>,
      changes |-> <<[who |-> player_one, delta |-> change],
                    [who |-> player_two, delta |-> F32Neg(change)]>>]

\* win scoring the winner 0.5, as tie does.
win_scored_as_tie(pw, self, r, winner, loser) ==
  calculate_rating(pw, self, r, winner, loser, F32Half)

\* EloRanking::win(&self, winner, loser)
win(pw, self, r, winner, loser) == calculate_rating(pw, self, r, winner, loser, F32One)

\* tie scoring player_one 1.0, as win does.
tie_scored_as_win(pw, self, r, player_one, player_two) ==
  calculate_rating(pw, self, r, player_one, player_two, F32One)

\* EloRanking::tie(&self, player_one, player_two)
tie(pw, self, r, player_one, player_two) ==
  calculate_rating(pw, self, r, player_one, player_two, F32Half)

\* loss handing win's deltas to its own arguments in its own order: the
\* first argument, the loser, is passed the winner's delta.
loss_rewarding_first(pw, self, r, loser, winner) ==
  LET out == win(pw, self, r, winner, loser)
  IN [expected |-> out.expected,
      changes |-> <<[who |-> loser, delta |-> out.changes[1].delta],
                    [who |-> winner, delta |-> out.changes[2].delta]>>]

\* EloRanking::loss(&self, loser, winner)
loss(pw, self, r, loser, winner) == win(pw, self, r, winner, loser)

RECURSIVE Applied(_, _)
\* The ratings after the change_rating calls cs, made in order.
Applied(r, cs) ==
  IF cs = <<>> THEN r
  ELSE Applied(change_rating(r, Head(cs).who, Head(cs).delta), Tail(cs))

(***************************************************************************)
(* The caller: one engine, four participants, a bounded number of calls    *)
(***************************************************************************)
\* Calls after new in one run, and in the run of the test scenario.
MaxCalls == 2
ScenarioCalls == 5

Players == {"p1", "p2", "p3", "p4"}
\* The place of each participant in a tuple of starting ratings.
Seat == [p1 |-> 1, p2 |-> 2, p3 |-> 3, p4 |-> 4]
\* The participants meet in two fixed pairings, p1 and p2 in either order
\* and p3 and p4 in one; the two handed to one outcome call are distinct
\* (two &mut).
Pairs == {<<"p1", "p2">>, <<"p2", "p1">>, <<"p3", "p4">>}

\* K-factors handed to new and set_k_factor: 0, the 25 and 32 of the docs.
KFactors == {0, 25, 32}

\* Deltas the caller hands to change_rating itself: the 100f32 and -100f32
\* of the tests.
F32Hundred == RoundF32(0, 100, 0)
Deltas == {F32Hundred, F32Neg(F32Hundred)}
\* The participants the caller changes itself: player_one and player_two.
Changed == {"p1", "p2"}

\* Starting ratings.  The 1400 of the tests; 2040 and the next f32 above it,
\* and a far higher rating; the two finite f32 values furthest apart, whose
\* difference overflows; 1917.6616 and the next f32 above it, two ratings
\* so close that their leads over 0 hand powf one argument, whose power a
\* build's compiler and its libm round differently; and 72.375, whose lead
\* over 0 is such an argument too.
R1400 == RoundF32(0, 1400, 0)
R2040 == RoundF32(0, 2040, 0)
R2040Next == [R2040 EXCEPT !.m = @ + 1]
R5400 == RoundF32(0, 5400, 0)
RLargest == Fin(0, 2 ^ MantBits - 1, MaxExp)
R1917 == Fin(0, 15709484, -13)
R1917Next == [R1917 EXCEPT !.m = @ + 1]
R72 == RoundF32(0, 579, -3)

\* A start: the K-factor given to new and the ratings of p1, p2, p3 and p4.
\* p3 and p4 start as p1 and p2 do, so that calls on the two pairs can be
\* compared.
Start(k, a, b) == <<k, a, b, a, b>>
\* The starts: the test's ratings under every K-factor; under 25, equal
\* ratings that are not a multiple of 0.5, ratings 4000 and 3360 apart and
\* the two furthest apart; under 32, ratings 640 apart and 0 against
\* 72.375; and one start where p3 and p4 are on a lead next to that of p1
\* and p2.
Starts ==
  {Start(k, R1400, R1400) : k \in KFactors}
  \cup {Start(25, R2040Next, R2040Next), Start(25, R1400, R5400),
        Start(25, R2040Next, R5400), Start(25, RLargest, F32Neg(RLargest)),
        Start(32, R1400, R2040), Start(32, Zero(0), R72),
        <<25, Zero(0), R1917Next, Zero(0), R1917>>}

\* The record of a call: its name and arguments, the engine and the ratings
\* it met, the expected score it computed, the change_rating calls it made
\* and the value it returned.
Call(op, one, two, arg, out, ret) ==
  [op |-> op, one |-> one, two |-> two, arg |-> arg,
   k |-> elo_ranking.k_factor, r |-> rating,
   expected |-> out.expected, changes |-> out.changes, ret |-> ret]

NoOutcome == [expected |-> <<>>, changes |-> <<>>]

\* The state after EloRanking::new(k), the participants holding ratings r.
Constructed(k, r, n) ==
  /\ elo_ranking = new(k)
  /\ rating = r
  /\ log = <<[op |-> "new", one |-> "none", two |-> "none", arg |-> <<k>>,
              k |-> k, r |-> r, expected |-> <<>>, changes |-> <<>>, ret |-> <<>>]>>
  /\ budget = n

Init ==
  \E s \in Starts : Constructed(s[1], [p \in Players |-> s[Seat[p] + 1]], MaxCalls)

\* The scenario of tests::rating: K-factor 32, everyone at 1400.
InitScenario == Constructed(32, [p \in Players |-> R1400], ScenarioCalls)

\* An outcome call op(one, two) that made the calls of out.
Outcome(op, one, two, out) ==
  /\ rating' = Applied(rating, out.changes)
  /\ log' = Append(log, Call(op, one, two, <<>>, out, <<>>))
  /\ budget' = budget - 1
  /\ UNCHANGED elo_ranking

CallWin(winner, loser) ==
  /\ budget > 0
  /\ \E pw \in Powf(PowfArgument(rating, winner, loser)) :
       Outcome("win", winner, loser, win(pw, elo_ranking, rating, winner, loser))

CallTie(player_one, player_two) ==
  /\ budget > 0
  /\ \E pw \in Powf(PowfArgument(rating, player_one, player_two)) :
       Outcome("tie", player_one, player_two,
               tie(pw, elo_ranking, rating, player_one, player_two))

CallLoss(loser, winner) ==
  /\ budget > 0
  /\ \E pw \in Powf(PowfArgument(rating, winner, loser)) :
       Outcome("loss", loser, winner, loss(pw, elo_ranking, rating, loser, winner))

\* The caller's own p.change_rating(delta), outside any outcome call.
CallChangeRating(p, delta) ==
  /\ budget > 0
  /\ rating' = change_rating(rating, p, delta)
  /\ log' = Append(log, Call("change_rating", p, "none", <<delta>>, NoOutcome, <<>>))
  /\ budget' = budget - 1
  /\ UNCHANGED elo_ranking

CallSetKFactor(k) ==
  /\ budget > 0
  /\ elo_ranking' = set_k_factor(elo_ranking, k)
  /\ log' = Append(log, Call("set_k_factor", "none", "none", <<k>>, NoOutcome, <<>>))
  /\ budget' = budget - 1
  /\ UNCHANGED rating

CallGetKFactor ==
  /\ budget > 0
  /\ log' = Append(log, Call("get_k_factor", "none", "none", <<>>, NoOutcome,
                             <<get_k_factor(elo_ranking)>>))
  /\ budget' = budget - 1
  /\ UNCHANGED <<elo_ranking, rating>>

Next ==
  \/ \E pq \in Pairs : CallWin(pq[1], pq[2])
  \/ \E pq \in Pairs : CallTie(pq[1], pq[2])
  \/ \E pq \in Pairs : CallLoss(pq[1], pq[2])
  \/ \E q \in Changed, delta \in Deltas : CallChangeRating(q, delta)
  \/ \E k \in KFactors : CallSetKFactor(k)
  \/ CallGetKFactor

\* The calls tests::rating makes, in any order and number: change_rating on
\* player_one, and tie, win and loss on player_one and player_two.
NextScenario ==
  \/ \E delta \in Deltas : CallChangeRating("p1", delta)
  \/ CallTie("p1", "p2")
  \/ CallWin("p1", "p2")
  \/ CallLoss("p1", "p2")

Spec == Init /\ [][Next]_vars
Scenario == InitScenario /\ [][NextScenario]_vars

\* The last call made, and the calls that computed an outcome.
Last == log[Len(log)]
IsOutcome(c) == c.op \in {"win", "tie", "loss"}
Played == {log[i] : i \in {j \in 1..Len(log) : IsOutcome(log[j])}}

(***************************************************************************)
(* Reading the log                                                         *)
(***************************************************************************)
\* The winner and the loser of a win or loss call.
Winner(c) == IF c.op = "loss" THEN c.two ELSE c.one
Loser(c) == IF c.op = "loss" THEN c.one ELSE c.two

\* The delta the call c passed to change_rating on the participant p.
DeltaTo(c, p) ==
  c.changes[CHOOSE i \in 1..Len(c.changes) : c.changes[i].who = p].delta

\* The rating of p when the call c returned.
RatingAfter(c, p) == Applied(c.r, c.changes)[p]

\* The engine's K-factor and the ratings when the i-th call of the log returned.
KAfter(i) == IF i < Len(log) THEN log[i + 1].k ELSE elo_ranking.k_factor
RatingsAfter(i) == IF i < Len(log) THEN log[i + 1].r ELSE rating

\* The value given to the most recent set_k_factor among the first i calls,
\* or to new when there is none.
LastGiven(i) ==
  LET given == {j \in 1..i : log[j].op \in {"new", "set_k_factor"}}
  IN log[CHOOSE j \in given : \A h \in given : h <= j].arg[1]

NonZero(a) == a.k # "fin" \/ a.m # 0

\* The finite f32 a as an integer count of units of 2^q, for q <= a.e.
Units(a, q) ==
  IF a.m = 0 THEN 0 ELSE (IF a.s = 1 THEN 0 - 1 ELSE 1) * a.m * (2 ^ (a.e - q))

\* The exponent of the last place of a; a zero has none and sets no unit.
UnitOf(a) == IF a.m = 0 THEN 0 ELSE a.e

Min(a, b) == IF a <= b THEN a ELSE b

\* x = a + n/2 and y = a - n/2 hold of the real numbers the finite f32
\* values x, y and a stand for, n being an integer.
ExactlyHalfAway(x, y, a, n) ==
  LET q == Min(Min(UnitOf(x), UnitOf(y)), Min(UnitOf(a), 0 - 1))
      half == n * (2 ^ (0 - 1 - q))
  IN /\ Units(x, q) = Units(a, q) + half
     /\ Units(y, q) = Units(a, q) - half

\* The decimal literal n / 10^4 as an f32 (n < 2^24): the nearest f32.
Decimal4(n) == F32Div(F32FromNat(n), F32FromNat(10000))

(***************************************************************************)
(* C1  Zero-sum                                                            *)
(***************************************************************************)
\* The score an outcome call hands to calculate_rating.
Score(c) == IF c.op = "tie" THEN F32Half ELSE F32One

\* C1: every win, tie or loss call makes exactly two change_rating calls,
\* one on each of its two participants; the delta passed first is the one
\* value K * (score - expected), and the delta passed second is exactly its
\* negation.
ZeroSum ==
  \A c \in Played :
    /\ Len(c.changes) = 2
    /\ {c.changes[1].who, c.changes[2].who} = {c.one, c.two}
    /\ c.changes[1].who # c.changes[2].who
    /\ c.changes[1].delta = F32Mul(F32FromNat(c.k), F32Sub(Score(c), c.expected[1]))
    /\ c.changes[2].delta = F32Neg(c.changes[1].delta)

\* A call on an already changed pair of unequal ratings passed a nonzero
\* delta and its negation.
ZeroSumWitness ==
  /\ Len(log) = 3
  /\ IsOutcome(log[2]) /\ IsOutcome(Last)
  /\ {Last.one, Last.two} = {log[2].one, log[2].two}
  /\ NonZero(log[2].changes[1].delta)
  /\ NonZero(Last.changes[1].delta)
  /\ Last.changes[2].delta = F32Neg(Last.changes[1].delta)

(***************************************************************************)
(* C2  loss(x, y) is win(y, x)                                             *)
(***************************************************************************)
\* K / 2^22 as an f32: the most two deltas computed from one K-factor and
\* one pair of ratings can differ through the last place of powf.
PowfSlack(k) == F32Mul(F32FromNat(k), Fin(0, 2 ^ (MantBits - 1), 1 - MantBits - 22))

\* The loss call c and the win call d met the same K-factor and the same
\* ratings, the loser of c being the loser of d.
ReversedWin(c, d) ==
  /\ c.op = "loss" /\ d.op = "win"
  /\ c.k = d.k
  /\ c.r[c.one] = d.r[d.two]
  /\ c.r[c.two] = d.r[d.one]

\* C2 as claimed: a loss(x, y) call and a win(y, x) call that meet the same
\* K-factor and the same two ratings leave x with the same rating and y
\* with the same rating.
LossSameAsReversedWin ==
  \A c \in Played, d \in Played :
    ReversedWin(c, d)
    => /\ RatingAfter(c, c.one) = RatingAfter(d, d.two)
       /\ RatingAfter(c, c.two) = RatingAfter(d, d.one)

\* C2 amended: a loss(x, y) call computes the expected score and makes the
\* change_rating calls, in order, that win(y, x) makes from the same state
\* with the value powf returned to it; a loss(x, y) call and a win(y, x)
\* call that meet the same K-factor and ratings leave x with the same
\* rating and y with the same rating when they computed the same expected
\* score, and in any case pass deltas that differ by at most K / 2^22.
LossEqualsReversedWin ==
  /\ \A c \in Played :
       c.op = "loss"
       => \E pw \in Powf(PowfArgument(c.r, c.two, c.one)) :
            LET out == win(pw, new(c.k), c.r, c.two, c.one)
            IN c.expected = out.expected /\ c.changes = out.changes
  /\ \A c \in Played, d \in Played :
       ReversedWin(c, d)
       => /\ c.expected = d.expected
             => /\ RatingAfter(c, c.one) = RatingAfter(d, d.two)
                /\ RatingAfter(c, c.two) = RatingAfter(d, d.one)
                /\ DeltaTo(c, c.one) = DeltaTo(d, d.two)
                /\ DeltaTo(c, c.two) = DeltaTo(d, d.one)
          /\ F32Le(F32Sub(DeltaTo(c, c.two), DeltaTo(d, d.one)), PowfSlack(c.k))
          /\ F32Le(F32Sub(DeltaTo(d, d.one), DeltaTo(c, c.two)), PowfSlack(c.k))

\* A win and then a loss met the same unequal ratings and a positive
\* K-factor, computed the same expected score and moved the ratings.
LossEqualsReversedWinWitness ==
  /\ Len(log) = 3
  /\ ReversedWin(Last, log[2])
  /\ Last.k > 0
  /\ Last.expected = log[2].expected
  /\ Last.r[Last.one] # Last.r[Last.two]
  /\ rating[Last.two] # Last.r[Last.two]

(***************************************************************************)
(* C3  A tie of equals changes nothing                                     *)
(***************************************************************************)
\* C3: a tie call that meets two equal ratings passes a delta of zero to
\* both participants and leaves both ratings as they were, whatever the
\* K-factor.
TieSymmetry ==
  \A c \in Played :
    (c.op = "tie" /\ F32Eq(c.r[c.one], c.r[c.two]))
    => /\ IsZero(DeltaTo(c, c.one)) /\ IsZero(DeltaTo(c, c.two))
       /\ RatingAfter(c, c.one) = c.r[c.one]
       /\ RatingAfter(c, c.two) = c.r[c.two]

\* A tie of two equal ratings under a positive K-factor has returned.
TieSymmetryWitness ==
  /\ Last.op = "tie" /\ Last.k > 0
  /\ Last.r[Last.one] = Last.r[Last.two]
  /\ rating = Last.r

(***************************************************************************)
(* C4  A win between equals                                                *)
(***************************************************************************)
\* C4 as claimed: a win call that meets two equal ratings R computes an
\* expected score of 0.5 and leaves the winner at exactly R + K/2 and the
\* loser at exactly R - K/2, as real numbers.
WinOfEqualsIsExact ==
  \A c \in Played :
    (c.op = "win" /\ F32Eq(c.r[c.one], c.r[c.two]))
    => /\ c.expected = <<F32Half>>
       /\ ExactlyHalfAway(RatingAfter(c, c.one), RatingAfter(c, c.two), c.r[c.one], c.k)

\* C4 amended: a win call that meets two equal ratings R computes an
\* expected score of 0.5, passes the winner exactly K/2 and the loser
\* exactly -K/2 (K converted to f32), and leaves them at the f32 values
\* nearest to R + K/2 and R - K/2; with K = 32 and R = 1400 these are 1416
\* and 1384.
WinOfEquals ==
  \A c \in Played :
    (c.op = "win" /\ F32Eq(c.r[c.one], c.r[c.two]))
    => LET halfK == F32Mul(F32FromNat(c.k), F32Half)
       IN /\ c.expected = <<F32Half>>
          /\ DeltaTo(c, c.one) = halfK
          /\ DeltaTo(c, c.two) = F32Neg(halfK)
          /\ RatingAfter(c, c.one) = F32Add(c.r[c.one], halfK)
          /\ RatingAfter(c, c.two) = F32Sub(c.r[c.two], halfK)
          /\ (c.k = 32 /\ c.r[c.one] = RoundF32(0, 1400, 0))
             => /\ RatingAfter(c, c.one) = RoundF32(0, 1416, 0)
                /\ RatingAfter(c, c.two) = RoundF32(0, 1384, 0)

\* The win of the test has returned: K = 32, both at 1400, now 1416 and 1384.
WinOfEqualsWitness ==
  /\ Last.op = "win" /\ Last.k = 32
  /\ Last.r[Last.one] = RoundF32(0, 1400, 0)
  /\ Last.r[Last.two] = RoundF32(0, 1400, 0)
  /\ rating[Last.one] = RoundF32(0, 1416, 0)
  /\ rating[Last.two] = RoundF32(0, 1384, 0)

(***************************************************************************)
(* C5  The scenario of the test                                            *)
(***************************************************************************)
\* The last three calls were tie, win and loss on p1 and p2, in this order,
\* and the tie met K-factor 32 and two ratings of 1400.
ScenarioPlayed ==
  /\ Len(log) >= 4
  /\ LET n == Len(log)
     IN /\ log[n - 2].op = "tie" /\ log[n - 1].op = "win" /\ log[n].op = "loss"
        /\ \A i \in {n - 2, n - 1, n} : log[i].one = "p1" /\ log[i].two = "p2"
        /\ log[n - 2].k = 32
        /\ log[n - 2].r["p1"] = RoundF32(0, 1400, 0)
        /\ log[n - 2].r["p2"] = RoundF32(0, 1400, 0)

\* C5: under K-factor 32, tie(p1, p2) on two ratings of 1400, then
\* win(p1, p2), then loss(p1, p2) end with p1 at the f32 1398.5305 and p2 at
\* the f32 1401.4695, whatever was called before the tie; the loss met the
\* ratings 1416 and 1384 and computed, for p2 as the winner, the expected
\* score 1 / (1 + 10^((1416 - 1384) / 400)).
ScenarioResult ==
  ScenarioPlayed
  => /\ rating["p1"] = Decimal4(13985305)
     /\ rating["p2"] = Decimal4(14014695)
     /\ Last.r["p1"] = RoundF32(0, 1416, 0)
     /\ Last.r["p2"] = RoundF32(0, 1384, 0)
     /\ \E p \in Pow10(F32Div(RoundF32(0, 1416 - 1384, 0), F32FourHundred)) :
          Last.expected = <<F32Div(F32One, F32Add(F32One, p))>>

\* The calls of tests::rating have been made in its order: after new(32)
\* with everyone at 1400, player_one.change_rating(100) left 1500 and
\* player_one.change_rating(-100) left 1400 again, and tie, win and loss
\* have moved the two ratings apart.
ScenarioWitness ==
  /\ ScenarioPlayed
  /\ Len(log) = 6
  /\ log[1].arg = <<32>>
  /\ \A p \in Players : log[1].r[p] = RoundF32(0, 1400, 0)
  /\ log[2].op = "change_rating" /\ log[2].one = "p1" /\ log[2].arg = <<F32Hundred>>
  /\ log[3].op = "change_rating" /\ log[3].one = "p1" /\ log[3].arg = <<F32Neg(F32Hundred)>>
  /\ log[3].r["p1"] = RoundF32(0, 1500, 0)
  /\ log[4].r["p1"] = RoundF32(0, 1400, 0)
  /\ F32Lt(rating["p1"], RoundF32(0, 1400, 0))
  /\ F32Lt(RoundF32(0, 1400, 0), rating["p2"])

(***************************************************************************)
(* C6  Monotonicity of the winner's gain                                   *)
(***************************************************************************)
\* The winner's lead over the loser as the engine computes it (an f32
\* subtraction, so a larger f32 lead is a larger real lead) and the delta
\* passed to the winner.
Lead(c) == F32Sub(c.r[Winner(c)], c.r[Loser(c)])
Gain(c) == DeltaTo(c, Winner(c))
SameKWins(c, d) == c.op = "win" /\ d.op = "win" /\ c.k = d.k /\ c.k > 0

\* C6 as claimed: of two win calls under one positive K-factor, the one
\* whose winner leads by more passes its winner a strictly smaller delta.
GainStrictlyDecreases ==
  \A c \in Played, d \in Played :
    (SameKWins(c, d) /\ F32Lt(Lead(c), Lead(d))) => F32Lt(Gain(d), Gain(c))

\* C6 amended: of two win calls under one positive K-factor, the one whose
\* winner leads by more, or by as much, passes its winner a delta that is
\* larger by at most K / 2^22: it is smaller, or equal (a rounded f32
\* saturates), or larger in its last places when powf rounded the two
\* powers differently; a winner who does not lead is passed at least K/2
\* and a winner who does not trail at most K/2, so an underdog gains at
\* least what a favourite gains; every such delta lies between 0 and K, and
\* it is exactly 0 from a lead of 4000 on.
GainNeverIncreases ==
  /\ \A c \in Played, d \in Played :
       (SameKWins(c, d) /\ F32Le(Lead(c), Lead(d)))
       => F32Le(F32Sub(Gain(d), Gain(c)), PowfSlack(c.k))
  /\ \A c \in Played :
       SameKWins(c, c)
       => LET k == F32FromNat(c.k)
              halfK == F32Mul(k, F32Half)
              lead == Lead(c)
              gain == Gain(c)
          IN /\ F32Le(lead, Zero(0)) => F32Le(halfK, gain)
             /\ F32Le(Zero(0), lead) => F32Le(gain, halfK)
             /\ F32Le(Zero(0), gain) /\ F32Le(gain, k)
             /\ F32Le(RoundF32(0, 4000, 0), lead) => IsZero(gain)

\* Two wins under one positive K-factor, the second with a larger lead and
\* a gain that is still positive and smaller by more than K / 2^22.
GainNeverIncreasesWitness ==
  /\ Len(log) = 3
  /\ SameKWins(log[2], Last)
  /\ F32Lt(Lead(log[2]), Lead(Last))
  /\ F32Lt(PowfSlack(Last.k), F32Sub(Gain(log[2]), Gain(Last)))
  /\ F32Lt(Zero(0), Gain(Last))

(***************************************************************************)
(* C7  Determinism                                                         *)
(***************************************************************************)
\* The calls c and d are of one operation and met the same K-factor and the
\* same two ratings.
SameInputs(c, d) ==
  /\ c.op = d.op /\ c.k = d.k
  /\ c.r[c.one] = d.r[d.one]
  /\ c.r[c.two] = d.r[d.two]

\* C7 as claimed: two outcome calls of the same operation that meet the
\* same K-factor and the same two ratings pass the same deltas, whatever
\* was called before each of them.
Deterministic ==
  \A c \in Played, d \in Played :
    SameInputs(c, d)
    => /\ DeltaTo(c, c.one) = DeltaTo(d, d.one)
       /\ DeltaTo(c, c.two) = DeltaTo(d, d.two)

\* C7 amended: two outcome calls of the same operation that meet the same
\* K-factor and the same two ratings pass the same deltas when they
\* computed the same expected score, whatever was called before each of
\* them, and in any case deltas that differ by at most K / 2^22: besides
\* the K-factor and the ratings only the last place of what powf returned
\* to the call tells in the deltas.
DeterministicUpToPowf ==
  \A c \in Played, d \in Played :
    SameInputs(c, d)
    => /\ c.expected = d.expected
          => /\ DeltaTo(c, c.one) = DeltaTo(d, d.one)
             /\ DeltaTo(c, c.two) = DeltaTo(d, d.two)
       /\ F32Le(F32Sub(DeltaTo(c, c.one), DeltaTo(d, d.one)), PowfSlack(c.k))
       /\ F32Le(F32Sub(DeltaTo(c, c.two), DeltaTo(d, d.two)), PowfSlack(c.k))

\* The same operation met the same K-factor and ratings a second time, on
\* the other pair and after an earlier call; powf returned another value to
\* it, and it passed another delta.
DeterministicWitness ==
  /\ Len(log) = 3
  /\ IsOutcome(Last) /\ SameInputs(Last, log[2])
  /\ Last.one # log[2].one
  /\ Last.expected # log[2].expected
  /\ DeltaTo(Last, Last.one) # DeltaTo(log[2], log[2].one)

(***************************************************************************)
(* C8  The K-factor                                                        *)
(***************************************************************************)
\* C8: the K-factor is always the value given to the most recent
\* set_k_factor (to new when there was none), 0 included, and every
\* get_k_factor returned that value; win, tie and loss leave the K-factor
\* as it was; set_k_factor and get_k_factor leave every rating as it was.
KFactorState ==
  /\ get_k_factor(elo_ranking) = LastGiven(Len(log))
  /\ \A i \in 1..Len(log) :
       /\ KAfter(i) = LastGiven(i)
       /\ log[i].op = "get_k_factor" => log[i].ret = <<LastGiven(i)>>
       /\ IsOutcome(log[i]) => KAfter(i) = log[i].k
       /\ log[i].op \in {"set_k_factor", "get_k_factor"} => RatingsAfter(i) = log[i].r

\* set_k_factor(0) replaced a positive K-factor and get_k_factor returned 0.
KFactorStateWitness ==
  /\ Len(log) = 3
  /\ log[1].arg[1] > 0
  /\ log[2].op = "set_k_factor" /\ log[2].arg = <<0>>
  /\ Last.op = "get_k_factor" /\ Last.ret = <<0>>

(***************************************************************************)
(* C9  Totality and the bounded delta                                      *)
(***************************************************************************)
\* The parts of C9 that do not depend on how the bounds are drawn: every
\* outcome call made has returned with an expected score and two deltas
\* that are finite numbers (no NaN, no infinity), and under a K-factor of 0
\* both deltas are zero and no rating changes.
TotalAndZeroAtK0 ==
  \A c \in Played :
    /\ Len(c.expected) = 1 /\ IsFinite(c.expected[1])
    /\ IsFinite(DeltaTo(c, c.one)) /\ IsFinite(DeltaTo(c, c.two))
    /\ c.k = 0 => /\ IsZero(DeltaTo(c, c.one)) /\ IsZero(DeltaTo(c, c.two))
                  /\ F32Eq(RatingAfter(c, c.one), c.r[c.one])
                  /\ F32Eq(RatingAfter(c, c.two), c.r[c.two])

\* C9 as claimed: besides, the expected score lies strictly between 0 and
\* 1 and, under a positive K-factor, a win or loss passes its winner a delta
\* strictly between 0 and K and a tie a delta of magnitude strictly below
\* K/2.
DeltaStrictlyBounded ==
  /\ TotalAndZeroAtK0
  /\ \A c \in Played :
       LET k == F32FromNat(c.k)
           halfK == F32Mul(k, F32Half)
       IN /\ F32Lt(Zero(0), c.expected[1]) /\ F32Lt(c.expected[1], F32One)
          /\ (c.k > 0 /\ c.op \in {"win", "loss"})
             => F32Lt(Zero(0), Gain(c)) /\ F32Lt(Gain(c), k)
          /\ (c.k > 0 /\ c.op = "tie")
             => F32Lt(F32Neg(halfK), DeltaTo(c, c.one)) /\ F32Lt(DeltaTo(c, c.one), halfK)

\* C9 amended: besides, the expected score lies between 0 and 1, both
\* included, a win or loss passes its winner a delta between 0 and K, both
\* included, and a tie a delta of magnitude at most K/2.
DeltaBounded ==
  /\ TotalAndZeroAtK0
  /\ \A c \in Played :
       LET k == F32FromNat(c.k)
           halfK == F32Mul(k, F32Half)
       IN /\ F32Le(Zero(0), c.expected[1]) /\ F32Le(c.expected[1], F32One)
          /\ c.op \in {"win", "loss"}
             => F32Le(Zero(0), Gain(c)) /\ F32Le(Gain(c), k)
          /\ c.op = "tie"
             => F32Le(F32Neg(halfK), DeltaTo(c, c.one)) /\ F32Le(DeltaTo(c, c.one), halfK)

\* An underdog far behind has won under a positive K-factor: the expected
\* score is tiny but not 0, and the winner was passed exactly K.
DeltaBoundedWitness ==
  /\ Last.op = "win" /\ Last.k > 0
  /\ F32Lt(Zero(0), Last.expected[1])
  /\ Gain(Last) = F32FromNat(Last.k)

(***************************************************************************)
(* C10  A tie of unequals                                                  *)
(***************************************************************************)
\* The lower and the higher rated participant of a call on unequal ratings.
Lower(c) == IF F32Lt(c.r[c.one], c.r[c.two]) THEN c.one ELSE c.two
Higher(c) == IF F32Lt(c.r[c.one], c.r[c.two]) THEN c.two ELSE c.one
UnequalTie(c) == c.op = "tie" /\ c.k > 0 /\ ~F32Eq(c.r[c.one], c.r[c.two])

\* C10 as claimed: a tie call under a positive K-factor that meets unequal
\* ratings leaves the lower-rated participant with a higher rating and the
\* higher-rated one with a lower rating, the two having moved by the same
\* amount, whichever was passed first.
TieMovesRatingsTogether ==
  \A c \in Played :
    UnequalTie(c)
    => /\ F32Lt(c.r[Lower(c)], RatingAfter(c, Lower(c)))
       /\ F32Lt(RatingAfter(c, Higher(c)), c.r[Higher(c)])
       /\ LET q == Min(Min(UnitOf(c.r[c.one]), UnitOf(c.r[c.two])),
                       Min(UnitOf(RatingAfter(c, c.one)), UnitOf(RatingAfter(c, c.two))))
          IN Units(RatingAfter(c, Lower(c)), q) - Units(c.r[Lower(c)], q)
             = Units(c.r[Higher(c)], q) - Units(RatingAfter(c, Higher(c)), q)

\* C10 amended: a tie call under a positive K-factor that meets unequal
\* ratings passes the lower-rated participant a delta d >= 0 and the
\* higher-rated one exactly -d, whichever was passed first; the lower
\* rating does not fall and the higher does not rise, each moving to the
\* f32 nearest to its sum with its delta.
TieFavoursLower ==
  \A c \in Played :
    UnequalTie(c)
    => LET lower == Lower(c)
           higher == Higher(c)
           after == Applied(c.r, c.changes)
           d == DeltaTo(c, lower)
       IN /\ F32Le(Zero(0), d)
          /\ DeltaTo(c, higher) = F32Neg(d)
          /\ F32Le(c.r[lower], after[lower])
          /\ F32Le(after[higher], c.r[higher])
          /\ after[lower] = F32Add(c.r[lower], d)
          /\ after[higher] = F32Add(c.r[higher], DeltaTo(c, higher))

\* A tie with the higher-rated participant passed first has raised the
\* lower rating and lowered the higher one.
TieFavoursLowerWitness ==
  /\ UnequalTie(Last)
  /\ Higher(Last) = Last.one
  /\ F32Lt(Last.r[Lower(Last)], rating[Lower(Last)])
  /\ F32Lt(rating[Higher(Last)], Last.r[Higher(Last)])
====
